---- MODULE Spec2Model ----
(***************************************************************************)
(* Model of atb-fetch.py: the download-and-extract pipeline of main()      *)
(* (plan construction, the thread pool of download_with_retry tasks, the   *)
(* as_completed collection loop, the sequential extract_selected pass) and *)
(* the file system the tasks share (the tarball path and its ".part"       *)
(* sibling).                                                               *)
(***************************************************************************)
EXTENDS Integers, Sequences, FiniteSets, TLC

(* ------------------------------ bounds -------------------------------- *)
\* longest selection (the list "kept" of filtered metadata rows)
MaxRows == 2
\* longest archive stream (number of tar entries)
MaxEntries == 2

(* ------------------------- program constants -------------------------- *)
\* download_with_retry(..., attempts: int = 5); main never passes attempts
Attempts == 5

(* ---------------------------- input domains --------------------------- *)
Tars == {"t1", "t2"}
Urls == {"u1", "u2"}
Members == {"a/m1", "a/m2"}
\* the (tar_xz, tar_xz_url) pairs one metadata table lists: two tarballs with
\* a URL each, or one tarball under two URLs
KeyFamilies == {{<<"t1", "u1">>, <<"t2", "u2">>}, {<<"t1", "u1">>, <<"t1", "u2">>}}

\* A tar_xz_md5 column value: the empty string, or the hex digest of the body
\* served at URL u1 in lower or upper case (a wrong digest for a row of u2).
NoMd5 == [digest |-> "", upper |-> FALSE]
Md5Values == {NoMd5} \cup [digest : {"u1"}, upper : BOOLEAN]

\* A metadata row reduced to the columns main() reads (lines 208-211).
Rows == {f \in [tar : Tars, url : Urls, member : Members, md5 : Md5Values] :
            f.url = "u2" => f.member = "a/m1"}

(* ------------------------------ file system --------------------------- *)
\* What a path holds: nothing, an incompletely written file, or the whole
\* body served at URL u (written u).
Absent == "absent"
Partial == "partial"
Contents == {Absent, Partial} \cup Urls

\* hashlib.md5(...).hexdigest(): lower-case hex of the bytes of the file
HexDigest(c) == [digest |-> c, upper |-> FALSE]

\* str.lower() on an md5 string
Lower(s) == [s EXCEPT !.upper = FALSE]

\* md5_ok comparing the digest with expected as written, without .lower()
md5_ok_cased(c, expected) ==
    IF expected = NoMd5 \/ c = Absent
    THEN FALSE
    ELSE HexDigest(c) = expected

\* md5_ok(path, expected), on the content c found at path
md5_ok(c, expected) ==
    IF expected = NoMd5 \/ c = Absent
    THEN FALSE
    ELSE HexDigest(c) = Lower(expected)

(* ------------------------------- planning ----------------------------- *)
\* index of key (tar, url) in the plan, 0 when it has no entry yet
RECURSIVE KeyIndex(_, _, _)
KeyIndex(p, tar, url) ==
    IF p = <<>> THEN 0
    ELSE IF p[Len(p)].tar = tar /\ p[Len(p)].url = url THEN Len(p)
    ELSE KeyIndex(SubSeq(p, 1, Len(p) - 1), tar, url)

\* plan.setdefault((tar, url), set()).add(member): dicts keep insertion order
PlanAdd(p, f) ==
    LET k == KeyIndex(p, f.tar, f.url) IN
    IF k = 0
    THEN Append(p, [tar |-> f.tar, url |-> f.url, members |-> {f.member}])
    ELSE [p EXCEPT ![k].members = @ \cup {f.member}]

\* the loop of lines 215-217 over the rows
RECURSIVE BuildPlan(_)
BuildPlan(rs) ==
    IF rs = <<>> THEN <<>>
    ELSE PlanAdd(BuildPlan(SubSeq(rs, 1, Len(rs) - 1)), rs[Len(rs)])

\* the loop of lines 218-221: the last non-empty md5 of a tarball wins
RECURSIVE BuildMd5Map(_)
BuildMd5Map(rs) ==
    IF rs = <<>> THEN [t \in Tars |-> NoMd5]
    ELSE LET f == rs[Len(rs)]
             m == BuildMd5Map(SubSeq(rs, 1, Len(rs) - 1))
         IN IF f.md5 # NoMd5 THEN [m EXCEPT ![f.tar] = f.md5] ELSE m

\* two rows name the same tar_xz with different tar_xz_url
HasConflict(rs) ==
    \E j, k \in 1..Len(rs) : rs[j].tar = rs[k].tar /\ rs[j].url # rs[k].url

(* ------------------------------ archives ------------------------------ *)
\* One tar entry as extract_selected sees it: member.name, member.isreg()
TarEntries == [name : Members, isreg : BOOLEAN]

SeqsUpTo(S, n) == UNION {[1..k -> S] : k \in 0..n}

\* the entry streams tarfile may decode from a downloaded body
Streams == SeqsUpTo(TarEntries, MaxEntries)

(* -------------------------------- state ------------------------------- *)
VARIABLES
    mainPc,       \* where main() is
    selConflict,  \* the rows given to main() name one tarball under two URLs
    plan,         \* the dict plan, as the sequence of its items
    md5_map,      \* the dict md5_map (NoMd5: no key)
    workers,      \* max_workers of the pool: max(1, args.jobs)
    emitted,      \* the plan items the dry run listed on stdout
    task,         \* per plan item: its download_with_retry call
    printed,      \* per plan item: the status line 250 printed, or "none"
    out,          \* per tarball: what tars_dir/<tarname> holds
    tmp,          \* per tarball: what tars_dir/<tarname>.part holds
    delete_tars,  \* args.delete_tars, "unread" until the extraction loop
    extIdx,       \* index in plan of the item the extraction loop is at
    ext,          \* the running extract_selected call
    opened,       \* plan items whose tarball tarfile.open was called on
    misses_total, \* the list misses_total, as member -> occurrences
    exitStatus    \* <<status>> once the process has exited, <<>> before

vars == <<mainPc, selConflict, plan, md5_map, workers, emitted, task, printed,
          out, tmp, delete_tars, extIdx, ext, opened, misses_total, exitStatus>>

planVars == <<selConflict, plan, md5_map, workers, emitted>>
diskVars == <<out, tmp>>
extractVars == <<delete_tars, extIdx, ext, opened, misses_total>>

\* the values of args.jobs the model runs with
JobsChoices == {0, 1, 2}

\* the lists of rows main() is run on
Selections ==
    {s \in SeqsUpTo(Rows, MaxRows) :
        \E fam \in KeyFamilies : \A j \in 1..Len(s) : <<s[j].tar, s[j].url>> \in fam}

\* tars_dir before the run: empty, or holding what an earlier run downloaded
InitialDisks == {[t \in Tars |-> Absent], [t \in Tars |-> "u1"]}

IdleTask == [pc |-> "queued", i |-> 0, data |-> Absent, h |-> "none",
             reqs |-> 0, delays |-> <<>>]
IdleExt == [pc |-> "idle", wanted |-> {}, missing |-> {}, stream |-> <<>>,
            pos |-> 0, written |-> {}]

Init ==
    /\ mainPc = "start"
    /\ selConflict = FALSE
    /\ plan = <<>>
    /\ md5_map = [t \in Tars |-> NoMd5]
    /\ workers = 0
    /\ emitted = <<>>
    /\ task = <<>>
    /\ printed = <<>>
    /\ out \in InitialDisks
    /\ tmp = [t \in Tars |-> Absent]
    /\ delete_tars = "unread"
    /\ extIdx = 0
    /\ ext = IdleExt
    /\ opened = {}
    /\ misses_total = [m \in Members |-> 0]
    /\ exitStatus = <<>>

Max(a, b) == IF a >= b THEN a ELSE b

(* ----------------------------- main: planning ------------------------- *)
\* lines 231-237: what the dry run prints of each plan item, in plan order
\* (the MD5 line only when the tarball has one: NoMd5 stands for no line)
DryRunListing(p, m) ==
    [e \in 1..Len(p) |-> [tar |-> p[e].tar, url |-> p[e].url, md5 |-> m[p[e].tar],
                          members |-> p[e].members]]

\* main() with the dry-run test after the submission of the downloads
PlanningSubmitsFirst ==
    /\ mainPc = "start"
    /\ \E rows \in Selections, jobs \in JobsChoices, dry_run \in BOOLEAN :
        IF rows = <<>>
        THEN /\ mainPc' = "done"
             /\ exitStatus' = <<0>>
             /\ UNCHANGED <<planVars, task, printed>>
        ELSE /\ plan' = BuildPlan(rows)
             /\ md5_map' = BuildMd5Map(rows)
             /\ selConflict' = HasConflict(rows)
             /\ workers' = Max(1, jobs)
             /\ task' = [e \in 1..Len(plan') |-> IdleTask]
             /\ printed' = [e \in 1..Len(plan') |-> "none"]
             /\ IF dry_run
                THEN /\ mainPc' = "done"
                     /\ exitStatus' = <<0>>
                     /\ emitted' = DryRunListing(plan', md5_map')
                ELSE /\ mainPc' = "fetching"
                     /\ UNCHANGED <<emitted, exitStatus>>
    /\ UNCHANGED <<diskVars, extractVars>>

\* main(), lines 199-246, on the rows, args.jobs and args.dry_run it is run
\* with: the early return on no rows, the plan, the dry run, and the
\* submission of one download_with_retry per plan item
Planning ==
    /\ mainPc = "start"
    /\ \E rows \in Selections, jobs \in JobsChoices, dry_run \in BOOLEAN :
        IF rows = <<>>
        THEN /\ mainPc' = "done"
             /\ exitStatus' = <<0>>
             /\ UNCHANGED <<planVars, task, printed>>
        ELSE /\ plan' = BuildPlan(rows)
             /\ md5_map' = BuildMd5Map(rows)
             /\ selConflict' = HasConflict(rows)
             /\ IF dry_run
                THEN /\ mainPc' = "done"
                     /\ exitStatus' = <<0>>
                     /\ emitted' = DryRunListing(plan', md5_map')
                     /\ UNCHANGED <<workers, task, printed>>
                ELSE /\ mainPc' = "fetching"
                     /\ workers' = Max(1, jobs)
                     /\ task' = [e \in 1..Len(plan') |-> IdleTask]
                     /\ printed' = [e \in 1..Len(plan') |-> "none"]
                     /\ UNCHANGED <<emitted, exitStatus>>
    /\ UNCHANGED <<diskVars, extractVars>>

(* ----------------------- download_with_retry tasks -------------------- *)
RECURSIVE Pow2(_)
Pow2(n) == IF n = 0 THEN 1 ELSE 2 * Pow2(n - 1)

Entries == 1..Len(plan)
TarOf(e) == plan[e].tar
Md5Of(e) == md5_map[plan[e].tar]

\* how a call ends: one of the three return values (line 48's "failed" is
\* what a loop that ran out would return) or the re-raised exception
Ended == {"cached-ok", "downloaded", "failed", "raised"}
TaskDone(e) == task[e].pc \in Ended
Running == {e \in Entries : task[e].pc \notin Ended \cup {"queued"}}
PoolAlive == mainPc \in {"fetching", "unwinding"}

\* the except clause with its test never true: the last attempt sleeps too,
\* the loop runs out and line 48 returns "failed"
ExceptSleepsLast(t) ==
    IF t.i = Attempts - 1
    THEN [t EXCEPT !.pc = "failed", !.data = Absent, !.h = "none",
                   !.delays = Append(@, Pow2(t.i))]
    ELSE [t EXCEPT !.pc = "check", !.i = @ + 1, !.data = Absent, !.h = "none",
                   !.delays = Append(@, Pow2(t.i))]

\* the except clause, lines 44-47: re-raise on the last attempt, otherwise
\* time.sleep(2 ** i) and the next iteration
Except(t) ==
    IF t.i = Attempts - 1
    THEN [t EXCEPT !.pc = "raised", !.data = Absent, !.h = "none"]
    ELSE [t EXCEPT !.pc = "check", !.i = @ + 1, !.data = Absent, !.h = "none",
                   !.delays = Append(@, Pow2(t.i))]

\* a worker thread of ThreadPoolExecutor(max_workers=max(1, args.jobs)) takes
\* the oldest submitted call; line 30's mkdir has nothing to do (line 225)
TaskStart(e) ==
    /\ PoolAlive
    /\ task[e].pc = "queued"
    /\ \A d \in 1..(e - 1) : task[d].pc # "queued"
    /\ Cardinality(Running) < workers
    /\ task' = [task EXCEPT ![e].pc = "check"]
    /\ UNCHANGED <<planVars, mainPc, printed, diskVars, extractVars,
                   exitStatus>>

\* the check of line 33 taking a file that exists for valid when no md5 is given
TaskCheckTrustsFile(e) ==
    /\ PoolAlive
    /\ task[e].pc = "check"
    /\ task' = [task EXCEPT ![e].pc =
                   IF \/ Md5Of(e) # NoMd5 /\ md5_ok(out[TarOf(e)], Md5Of(e))
                      \/ Md5Of(e) = NoMd5 /\ out[TarOf(e)] # Absent
                   THEN "cached-ok" ELSE "request"]
    /\ UNCHANGED <<planVars, mainPc, printed, diskVars, extractVars,
                   exitStatus>>

\* lines 33-34: if expected_md5 and md5_ok(out, expected_md5): return "cached-ok"
TaskCheck(e) ==
    /\ PoolAlive
    /\ task[e].pc = "check"
    /\ task' = [task EXCEPT ![e].pc =
                   IF Md5Of(e) # NoMd5 /\ md5_ok(out[TarOf(e)], Md5Of(e))
                   THEN "cached-ok" ELSE "request"]
    /\ UNCHANGED <<planVars, mainPc, printed, diskVars, extractVars,
                   exitStatus>>

\* lines 35-36: urlopen(url).read() returns the body or raises
TaskRequest(e) ==
    /\ PoolAlive
    /\ task[e].pc = "request"
    /\ LET t == [task[e] EXCEPT !.reqs = @ + 1] IN
       \/ task' = [task EXCEPT ![e] = [t EXCEPT !.pc = "open", !.data = plan[e].url]]
       \/ task' = [task EXCEPT ![e] = Except(t)]
    /\ UNCHANGED <<planVars, mainPc, printed, diskVars, extractVars,
                   exitStatus>>

\* lines 37-38: open(tmp, "wb") creates the .part file or truncates the one
\* that is there
TaskOpenTmp(e) ==
    /\ PoolAlive
    /\ task[e].pc = "open"
    /\ tmp' = [tmp EXCEPT ![TarOf(e)] = Partial]
    /\ task' = [task EXCEPT ![e].pc = "write", ![e].h = "tmp"]
    /\ UNCHANGED <<planVars, mainPc, printed, out, extractVars,
                   exitStatus>>

\* the file a task's open handle writes to: the handle follows its file when
\* another task renames the .part file it was opened on
WriteThrough(e, c) ==
    /\ tmp' = IF task[e].h = "tmp" THEN [tmp EXCEPT ![TarOf(e)] = c] ELSE tmp
    /\ out' = IF task[e].h = "out" THEN [out EXCEPT ![TarOf(e)] = c] ELSE out

\* line 39 and the end of the with block: f.write(data) writes the whole
\* body, or raises with the file incomplete
TaskWriteTmp(e) ==
    /\ PoolAlive
    /\ task[e].pc = "write"
    /\ \/ /\ WriteThrough(e, task[e].data)
          /\ task' = [task EXCEPT ![e].pc = "replace", ![e].h = "none"]
       \/ /\ WriteThrough(e, Partial)
          /\ task' = [task EXCEPT ![e] = Except(task[e])]
    /\ UNCHANGED <<planVars, mainPc, printed, extractVars, exitStatus>>

\* where the open handles of the other tasks point after tmp was renamed
\* over out for tarball t
Renamed(tk, e, t) ==
    [d \in DOMAIN tk |->
        IF d # e /\ plan[d].tar = t /\ tk[d].h = "tmp" THEN [tk[d] EXCEPT !.h = "out"]
        ELSE IF d # e /\ plan[d].tar = t /\ tk[d].h = "out" THEN [tk[d] EXCEPT !.h = "gone"]
        ELSE tk[d]]

\* line 40: tmp.replace(out) renames atomically, or raises (no .part file,
\* or the rename fails) and changes nothing
TaskReplace(e) ==
    /\ PoolAlive
    /\ task[e].pc = "replace"
    /\ \/ /\ tmp[TarOf(e)] # Absent
          /\ out' = [out EXCEPT ![TarOf(e)] = tmp[TarOf(e)]]
          /\ tmp' = [tmp EXCEPT ![TarOf(e)] = Absent]
          /\ task' = Renamed([task EXCEPT ![e].pc = "verify"], e, TarOf(e))
       \/ /\ task' = [task EXCEPT ![e] = Except(task[e])]
          /\ UNCHANGED diskVars
    /\ UNCHANGED <<planVars, mainPc, printed, extractVars, exitStatus>>

\* the call without lines 41-42: "downloaded" whatever was written
TaskVerifySkips(e) ==
    /\ PoolAlive
    /\ task[e].pc = "verify"
    /\ task' = [task EXCEPT ![e] = [task[e] EXCEPT !.pc = "downloaded", !.data = Absent]]
    /\ UNCHANGED <<planVars, mainPc, printed, diskVars, extractVars,
                   exitStatus>>

\* lines 41-43: raise ValueError("md5 mismatch") or return "downloaded"
TaskVerify(e) ==
    /\ PoolAlive
    /\ task[e].pc = "verify"
    /\ task' = [task EXCEPT ![e] =
                   IF Md5Of(e) # NoMd5 /\ ~md5_ok(out[TarOf(e)], Md5Of(e))
                   THEN Except(task[e])
                   ELSE [task[e] EXCEPT !.pc = "downloaded", !.data = Absent]]
    /\ UNCHANGED <<planVars, mainPc, printed, diskVars, extractVars,
                   exitStatus>>

(* ------------------------- main: collecting --------------------------- *)
\* lines 247-250: as_completed hands over a finished future; fut.result()
\* returns its status, which is printed, or re-raises its exception in main
Collect(e) ==
    /\ mainPc = "fetching"
    /\ TaskDone(e)
    /\ printed[e] = "none"
    /\ IF task[e].pc = "raised"
       THEN mainPc' = "unwinding" /\ UNCHANGED printed
       ELSE printed' = [printed EXCEPT ![e] = task[e].pc] /\ UNCHANGED mainPc
    /\ UNCHANGED <<planVars, task, diskVars, extractVars, exitStatus>>

\* the collection loop left after the first status, the pool not waited for
ExitPoolEarly ==
    /\ mainPc = "fetching"
    /\ \E e \in Entries : printed[e] # "none"
    /\ mainPc' = "extracting"
    /\ extIdx' = 1
    /\ task' = [e \in Entries |-> [IdleTask EXCEPT !.pc = printed[e]]]
    /\ delete_tars' \in BOOLEAN
    /\ UNCHANGED <<planVars, printed, diskVars, ext, opened, misses_total,
                   exitStatus>>

\* the end of the with block, line 242, when every status was printed; the
\* futures are dropped, and the extraction loop begins (args.delete_tars is
\* what the run was started with; line 260 is the first to read it)
ExitPool ==
    /\ mainPc = "fetching"
    /\ \A e \in Entries : printed[e] # "none"
    /\ mainPc' = "extracting"
    /\ extIdx' = 1
    /\ task' = [e \in Entries |-> [IdleTask EXCEPT !.pc = printed[e]]]
    /\ delete_tars' \in BOOLEAN
    /\ UNCHANGED <<planVars, printed, diskVars, ext, opened, misses_total,
                   exitStatus>>

\* the exception leaves the with block: ThreadPoolExecutor.__exit__ waits for
\* every submitted call (shutdown(wait=True)), then main() ends with the
\* exception uncaught and the interpreter exits with status 1
Abort ==
    /\ mainPc = "unwinding"
    /\ \A e \in Entries : TaskDone(e)
    /\ mainPc' = "aborted"
    /\ exitStatus' = <<1>>
    /\ UNCHANGED <<planVars, task, printed, diskVars, extractVars>>

(* ------------------------- main: extracting --------------------------- *)
\* line 256 up to line 54: extract_selected copies the wanted set and opens
\* the tarball. tarfile.open raises on a missing, incomplete or unreadable
\* file, and nothing in main() catches it; otherwise the file decodes to a
\* stream of entries.
ExtractOpen ==
    /\ mainPc = "extracting"
    /\ ext.pc = "idle"
    /\ extIdx \in Entries
    /\ opened' = opened \cup {extIdx}
    /\ \/ /\ mainPc' = "aborted"
          /\ exitStatus' = <<1>>
          /\ UNCHANGED ext
       \/ /\ out[TarOf(extIdx)] \in Urls
          /\ \E s \in Streams :
                ext' = [pc |-> "scan", wanted |-> plan[extIdx].members,
                        missing |-> plan[extIdx].members, stream |-> s,
                        pos |-> 0, written |-> {}]
          /\ UNCHANGED <<mainPc, exitStatus>>
    /\ UNCHANGED <<planVars, task, printed, diskVars, delete_tars, extIdx,
                   misses_total>>

\* the loop with missing bound to the caller's set (no copy at line 52):
\* every removal is a removal from plan's set
ExtractMemberAliased ==
    /\ mainPc = "extracting"
    /\ ext.pc = "scan"
    /\ ext.pos < Len(ext.stream)
    /\ LET member == ext.stream[ext.pos + 1]
           hit == member.isreg /\ member.name \in ext.missing
           missing == IF hit THEN ext.missing \ {member.name} ELSE ext.missing
       IN /\ ext' = [ext EXCEPT
                       !.pos = @ + 1,
                       !.missing = missing,
                       !.written = IF hit THEN @ \cup {member.name} ELSE @,
                       !.pc = IF member.isreg /\ missing = {} THEN "break" ELSE "scan"]
          /\ plan' = [plan EXCEPT ![extIdx].members = missing]
    /\ UNCHANGED <<mainPc, selConflict, md5_map, workers, emitted, task, printed,
                   diskVars, delete_tars, extIdx, opened, misses_total, exitStatus>>

\* the loop without the test of line 56: an entry of any type is extracted
ExtractMemberAnyType ==
    /\ mainPc = "extracting"
    /\ ext.pc = "scan"
    /\ ext.pos < Len(ext.stream)
    /\ LET member == ext.stream[ext.pos + 1]
           hit == member.name \in ext.missing
           missing == IF hit THEN ext.missing \ {member.name} ELSE ext.missing
       IN ext' = [ext EXCEPT
                    !.pos = @ + 1,
                    !.missing = missing,
                    !.written = IF hit THEN @ \cup {member.name} ELSE @,
                    !.pc = IF missing = {} THEN "break" ELSE "scan"]
    /\ UNCHANGED <<mainPc, planVars, task, printed, diskVars, delete_tars, extIdx,
                   opened, misses_total, exitStatus>>

\* the loop without lines 72-73: the stream is always read to its end
ExtractMemberNoBreak ==
    /\ mainPc = "extracting"
    /\ ext.pc = "scan"
    /\ ext.pos < Len(ext.stream)
    /\ LET member == ext.stream[ext.pos + 1]
           hit == member.isreg /\ member.name \in ext.missing
           missing == IF hit THEN ext.missing \ {member.name} ELSE ext.missing
       IN ext' = [ext EXCEPT
                    !.pos = @ + 1,
                    !.missing = missing,
                    !.written = IF hit THEN @ \cup {member.name} ELSE @]
    /\ UNCHANGED <<mainPc, planVars, task, printed, diskVars, delete_tars, extIdx,
                   opened, misses_total, exitStatus>>

\* one iteration of the loop of lines 55-73 on the next entry of the stream
ExtractMember ==
    /\ mainPc = "extracting"
    /\ ext.pc = "scan"
    /\ ext.pos < Len(ext.stream)
    /\ LET member == ext.stream[ext.pos + 1]
           hit == member.isreg /\ member.name \in ext.missing
           missing == IF hit THEN ext.missing \ {member.name} ELSE ext.missing
       IN ext' = [ext EXCEPT
                    !.pos = @ + 1,
                    !.missing = missing,
                    !.written = IF hit THEN @ \cup {member.name} ELSE @,
                    !.pc = IF member.isreg /\ missing = {} THEN "break" ELSE "scan"]
    /\ UNCHANGED <<mainPc, planVars, task, printed, diskVars, delete_tars, extIdx,
                   opened, misses_total, exitStatus>>

\* misses_total.extend(list(missing)), lines 257-259
Extend(mt, missing) == [m \in Members |-> IF m \in missing THEN mt[m] + 1 ELSE mt[m]]

\* lines 257-264 without the test of args.delete_tars: the tarball is always
\* unlinked
ExtractReturnAlwaysDeletes ==
    /\ mainPc = "extracting"
    /\ \/ ext.pc = "break"
       \/ ext.pc = "scan" /\ ext.pos = Len(ext.stream)
    /\ misses_total' = Extend(misses_total, ext.missing)
    /\ \/ out' = [out EXCEPT ![TarOf(extIdx)] = Absent]
       \/ UNCHANGED out
    /\ ext' = IdleExt
    /\ extIdx' = extIdx + 1
    /\ UNCHANGED <<mainPc, planVars, task, printed, tmp, delete_tars, opened,
                   exitStatus>>

\* the loop ends (stream exhausted, or break) and extract_selected returns
\* missing; lines 257-264 record it and unlink the tarball if asked to (a
\* failing unlink is passed over)
ExtractReturn ==
    /\ mainPc = "extracting"
    /\ \/ ext.pc = "break"
       \/ ext.pc = "scan" /\ ext.pos = Len(ext.stream)
    /\ misses_total' = Extend(misses_total, ext.missing)
    /\ IF delete_tars = TRUE
       THEN \/ out' = [out EXCEPT ![TarOf(extIdx)] = Absent]
            \/ UNCHANGED out
       ELSE UNCHANGED out
    /\ ext' = IdleExt
    /\ extIdx' = extIdx + 1
    /\ UNCHANGED <<mainPc, planVars, task, printed, tmp, delete_tars, opened,
                   exitStatus>>

\* lines 266-269: the closing message; main() returns and the exit status is 0
Finish ==
    /\ mainPc = "extracting"
    /\ ext.pc = "idle"
    /\ extIdx = Len(plan) + 1
    /\ mainPc' = "done"
    /\ exitStatus' = <<0>>
    /\ UNCHANGED <<planVars, task, printed, diskVars, extractVars>>

Next ==
    \/ Planning
    \/ \E e \in Entries : TaskStart(e)
    \/ \E e \in Entries : TaskCheck(e)
    \/ \E e \in Entries : TaskRequest(e)
    \/ \E e \in Entries : TaskOpenTmp(e)
    \/ \E e \in Entries : TaskWriteTmp(e)
    \/ \E e \in Entries : TaskReplace(e)
    \/ \E e \in Entries : TaskVerify(e)
    \/ \E e \in Entries : Collect(e)
    \/ ExitPool
    \/ Abort
    \/ ExtractOpen
    \/ ExtractMember
    \/ ExtractReturn
    \/ Finish

Spec == Init /\ [][Next]_vars

(* --------------------- extract_selected on its own -------------------- *)
\* extract_selected called on a fetched tarball with any set of wanted
\* members, the empty set included (main() itself never passes an empty
\* set: a plan item has a member from the row that created it)
ExtractInit ==
    /\ mainPc = "extracting"
    /\ selConflict = FALSE
    /\ plan \in {<<[tar |-> "t1", url |-> "u1", members |-> w]>> : w \in SUBSET Members}
    /\ md5_map = [t \in Tars |-> NoMd5]
    /\ workers = 1
    /\ emitted = <<>>
    /\ task = <<[IdleTask EXCEPT !.pc = "downloaded"]>>
    /\ printed = <<"downloaded">>
    /\ out = [t \in Tars |-> IF t = "t1" THEN "u1" ELSE Absent]
    /\ tmp = [t \in Tars |-> Absent]
    /\ delete_tars \in BOOLEAN
    /\ extIdx = 1
    /\ ext = IdleExt
    /\ opened = {}
    /\ misses_total = [m \in Members |-> 0]
    /\ exitStatus = <<>>

ExtractNext ==
    \/ ExtractOpen
    \/ ExtractMember
    \/ ExtractReturn
    \/ Finish

ExtractSpec == ExtractInit /\ [][ExtractNext]_vars

(* ======================= properties of the pipeline =================== *)
Tasks == DOMAIN task
RunEnded == mainPc \in {"done", "aborted"}
FetchedOk(e) == task[e].pc \in {"cached-ok", "downloaded"}

\* the file content c has the md5 the metadata gives, in whichever case the
\* metadata writes it
FileMatches(c, expected) == c \in Urls /\ expected # NoMd5 /\ expected.digest = c

\* C1 (as claimed): isolation. When a run has ended and the download of
\* tarball A failed on every attempt, the download of any other tarball B has
\* ended with its own outcome, and if B was fetched its extraction was run.
C1_Isolation ==
    RunEnded =>
        \A a, b \in Tasks :
            (TarOf(a) # TarOf(b) /\ task[a].pc \in {"raised", "failed"}) =>
                /\ TaskDone(b)
                /\ FetchedOk(b) => b \in opened

\* C2 (as claimed): failure is data. No call of download_with_retry ends by
\* raising, and main's collection loop is never left by an exception.
C2_FailureIsData ==
    /\ \A e \in Tasks : task[e].pc # "raised"
    /\ mainPc # "unwinding"

\* C3: idempotency. A call that finds the destination file matching the
\* expected md5 when it checks it returns "cached-ok" at that step, issues no
\* network request and leaves the destination and the .part file alone.
C3_Idempotency ==
    [][\A e \in Tasks :
          (/\ e \in DOMAIN task'
           /\ task[e].pc = "check"
           /\ FileMatches(out[TarOf(e)], Md5Of(e))
           /\ task'[e] # task[e])
          => /\ task'[e].pc = "cached-ok"
             /\ task'[e].reqs = task[e].reqs
             /\ task[e].i = 0 => task'[e].reqs = 0
             /\ out' = out
             /\ tmp' = tmp]_vars

\* C3 witness: a second fetch of a tarball after a verified first fetch of it
\* has returned "cached-ok" without a request, the md5 given in upper case
C3_Witness ==
    \E d, e \in Tasks :
        /\ d # e /\ TarOf(d) = TarOf(e)
        /\ task[d].pc = "downloaded" /\ task[d].reqs > 0
        /\ task[e].pc = "cached-ok" /\ task[e].reqs = 0
        /\ Md5Of(e).upper

\* C4 (as claimed): atomicity. The destination path of a tarball never holds
\* an incompletely written file.
C4_Atomicity == \A t \in Tars : out[t] # Partial

\* C5: attempt bound and backoff. A call issues at most Attempts requests;
\* the sleeps so far are 1, 2, 4, ... (non-decreasing), one per failed attempt
\* but the last; a call that ended by exhausting its attempts slept
\* Attempts - 1 times.
C5_Backoff ==
    \A e \in Tasks :
        LET t == task[e] IN
        /\ t.reqs <= Attempts
        /\ t.reqs <= t.i + 1
        /\ Len(t.delays) <= Attempts - 1
        /\ \A k \in 1..Len(t.delays) : t.delays[k] = Pow2(k - 1)
        /\ \A k \in 1..(Len(t.delays) - 1) : t.delays[k] <= t.delays[k + 1]
        /\ t.pc \notin Ended \cup {"queued"} => Len(t.delays) = t.i
        /\ t.pc \in {"raised", "failed"} => Len(t.delays) = Attempts - 1

\* C5 witness: a call has used up all its attempts, with a request in each
C5_Witness ==
    \E e \in Tasks :
        /\ task[e].pc = "raised"
        /\ task[e].reqs = Attempts
        /\ task[e].delays = <<1, 2, 4, 8>>

\* C6 (as claimed): when a run has ended, every plan item whose download
\* failed was never opened for extraction and has all its wanted members in
\* misses_total.
C6_FailedRecorded ==
    RunEnded =>
        \A e \in Tasks :
            task[e].pc \in {"raised", "failed"} =>
                /\ e \notin opened
                /\ \A m \in plan[e].members : misses_total[m] >= 1

\* C7 (as claimed): a run of the pipeline that had a failed download or a
\* member never found exits with a non-zero status.
C7_ExitStatus ==
    (exitStatus # <<>> /\ Tasks # {}) =>
        ((\/ \E e \in Tasks : task[e].pc \in {"raised", "failed"}
          \/ \E m \in Members : misses_total[m] > 0)
         => exitStatus[1] # 0)

\* C8: completeness. While extract_selected runs on a plan item and when it
\* returns, the members written and the members still missing are disjoint,
\* together they are the wanted set, missing is a subset of it, and the plan
\* item's own set is the wanted set it was called with.
C8_Completeness ==
    ext.pc # "idle" =>
        /\ ext.missing \subseteq ext.wanted
        /\ ext.written \cap ext.missing = {}
        /\ ext.written \cup ext.missing = ext.wanted
        /\ (ext.wanted \ ext.missing) = ext.written
        /\ plan[extIdx].members = ext.wanted

\* C8 witness: a scan has ended with one wanted member written and one missing
C8_Witness ==
    /\ ext.pc = "scan"
    /\ ext.pos = Len(ext.stream)
    /\ ext.written # {}
    /\ ext.missing # {}

\* C9 (as claimed): with a selection that names one tarball under two URLs no
\* download is dispatched and no request is issued.
C9_PlanConflict ==
    selConflict => \A e \in Tasks : task[e].pc = "queued" /\ task[e].reqs = 0

\* C10 (as claimed): no two downloads of a run have the same tarball, and so
\* the same destination path and .part path.
C10_DisjointTasks ==
    \A d, e \in Tasks : d # e => TarOf(d) # TarOf(e)

\* C11: dry run. The step that lists the plan lists every plan item with its
\* URL, md5 and members, ends main(), submits no download, opens no tarball
\* and leaves the tarballs and .part files as they were; nothing happens after.
C11_DryRun ==
    [][emitted' # <<>> =>
          /\ mainPc' = "done"
          /\ Len(emitted') = Len(plan')
          /\ \A e \in 1..Len(plan') :
                /\ emitted'[e].tar = plan'[e].tar
                /\ emitted'[e].url = plan'[e].url
                /\ emitted'[e].md5 = md5_map'[plan'[e].tar]
                /\ emitted'[e].members = plan'[e].members
          /\ task' = <<>>
          /\ opened' = {}
          /\ ext' = IdleExt
          /\ out' = out
          /\ tmp' = tmp]_vars

\* C11 witness: a dry run has listed two plan items, one with an md5, over
\* tarballs left by an earlier run
C11_Witness ==
    /\ Len(emitted) = 2
    /\ \E e \in 1..2 : emitted[e].md5 # NoMd5
    /\ \E t \in Tars : out[t] # Absent
    /\ mainPc = "done"
    /\ task = <<>>

\* C12 (as claimed): once a download_with_retry call has ended, by a return
\* or by the exception of its last attempt, its tarball has no .part file
\* (stated for a call that is the only one on its tarball).
C12_NoLeftoverPart ==
    \A e \in Tasks :
        (TaskDone(e) /\ \A d \in Tasks : d # e => TarOf(d) # TarOf(e))
            => tmp[TarOf(e)] = Absent

\* the wanted members that no regular entry of the stream carries
Unmatched(wanted, stream) ==
    {m \in wanted : ~\E k \in 1..Len(stream) : stream[k].isreg /\ stream[k].name = m}

\* C13: missing members are a result. When the loop of extract_selected ends
\* on a readable tarball, main() has not been aborted and the missing set is
\* exactly the wanted members without a regular entry of that name in the
\* archive; a member still unmatched was looked for in the whole stream, and
\* at every point a member is out of missing only if its file was written.
C13_MissingIsResult ==
    /\ ext.pc # "idle" => (ext.wanted \ ext.missing) \subseteq ext.written
    /\ (ext.pc = "break" \/ (ext.pc = "scan" /\ ext.pos = Len(ext.stream))) =>
          /\ mainPc = "extracting"
          /\ ext.missing = Unmatched(ext.wanted, ext.stream)
          /\ ext.missing # {} => ext.pos = Len(ext.stream)

\* C13 witness: a whole stream was scanned, a wanted member has only a
\* non-regular entry of its name and is missing
C13_Witness ==
    /\ ext.pc = "scan"
    /\ ext.pos = Len(ext.stream)
    /\ \E k \in 1..Len(ext.stream) :
          /\ ~ext.stream[k].isreg
          /\ ext.stream[k].name \in ext.missing

\* C14: no short-circuit without an md5. A call for a tarball without an md5
\* never returns "cached-ok": its check always goes on to the request,
\* whatever the destination holds, and when the first attempt got through
\* request, write and rename it returns "downloaded" after exactly one request.
C14_NoShortCircuit ==
    [][\A e \in Tasks :
          (e \in DOMAIN task' /\ Md5Of(e) = NoMd5) =>
             /\ task'[e].pc # "cached-ok"
             /\ (task[e].pc = "check" /\ task'[e] # task[e]) =>
                   task'[e].pc = "request"
             /\ (task[e].pc = "request" /\ task'[e] # task[e]) =>
                   task'[e].reqs = task[e].reqs + 1
             /\ (task[e].pc = "verify" /\ task[e].i = 0 /\ task'[e] # task[e]) =>
                   (task'[e].pc = "downloaded" /\ task'[e].reqs = 1)]_vars

\* C14 witness: without an md5, a call whose destination already held a file
\* has returned "downloaded" after one request
C14_Witness ==
    \E e \in Tasks :
        /\ mainPc = "fetching"
        /\ Md5Of(e) = NoMd5
        /\ plan[e].url = "u1"
        /\ task[e].pc = "downloaded"
        /\ task[e].i = 0
        /\ task[e].reqs = 1
        /\ \E d \in Tasks : task[d].pc = "queued" /\ out[TarOf(d)] = "u1"

\* C15: a checksum mismatch is a failed attempt. With an md5 given, a call at
\* its verification whose destination does not match goes the way of a failed
\* request: next attempt after a sleep of 2^i, or the end of the call on the
\* last attempt; and the step by which a call returns "downloaded" or
\* "cached-ok" is taken with the destination matching the md5.
C15_MismatchRetried ==
    [][\A e \in Tasks :
          (/\ e \in DOMAIN task'
           /\ Md5Of(e) # NoMd5
           /\ task[e].pc \notin Ended
           /\ task'[e] # task[e])
          => /\ task'[e].pc \in {"downloaded", "cached-ok"} =>
                   /\ FileMatches(out[TarOf(e)], Md5Of(e))
                   /\ out' = out
             /\ (task[e].pc = "verify" /\ ~FileMatches(out[TarOf(e)], Md5Of(e))) =>
                   IF task[e].i < Attempts - 1
                   THEN /\ task'[e].pc = "check"
                        /\ task'[e].i = task[e].i + 1
                        /\ task'[e].delays = Append(task[e].delays, Pow2(task[e].i))
                   ELSE /\ task'[e].pc \in {"raised", "failed"}
                        /\ task'[e].reqs <= Attempts]_vars

\* C15 witness: a call with an md5 is at its second attempt after it wrote a
\* body that does not match, having slept 1
C15_Witness ==
    \E e \in Tasks :
        /\ Md5Of(e) # NoMd5
        /\ plan[e].url = "u2"
        /\ \A d \in Tasks : d # e => TarOf(d) # TarOf(e)
        /\ out[TarOf(e)] = "u2"
        /\ task[e].pc = "check"
        /\ task[e].i = 1
        /\ task[e].delays = <<1>>

\* C16: phase ordering. Whenever main() is in its extraction loop, or a
\* tarball was ever opened for extraction, every download of the run has
\* ended with "cached-ok" or "downloaded" and that status was printed.
C16_PhaseOrder ==
    (mainPc = "extracting" \/ opened # {} \/ ext.pc # "idle") =>
        \A d \in Tasks :
            /\ task[d].pc \in {"cached-ok", "downloaded"}
            /\ printed[d] = task[d].pc

\* C16 witness: the second of two tarballs is being scanned, one of them
\* downloaded and the other found valid
C16_Witness ==
    /\ Len(plan) = 2
    /\ extIdx = 2
    /\ ext.pc = "scan"
    /\ opened = {1, 2}
    /\ \E d, e \in Tasks : printed[d] = "cached-ok" /\ printed[e] = "downloaded"

\* C17 (as claimed): a run of the pipeline ends in Done whatever downloads
\* failed, and when it has ended every plan item's download has ended and has
\* its outcome in the report.
C17_AllRecorded ==
    RunEnded =>
        /\ \A e \in Tasks : TaskDone(e) /\ printed[e] # "none"
        /\ (Tasks # {} /\ opened = {}) => mainPc = "done"

\* C18 (as claimed): when the run has ended and a tarball that was fetched
\* whole could not be read by tarfile, every plan item was still opened for
\* extraction.
C18_UnreadableContinues ==
    (mainPc = "aborted" /\ extIdx \in Entries /\ out[TarOf(extIdx)] \in Urls) =>
        \A e \in Tasks : e \in opened

\* C19: cleanup. Outside the fetch phase a tarball changes only by being
\* removed, with args.delete_tars set, in the step in which the extraction of
\* that very tarball has ended (found everything or not); and every
\* extraction that ends, whether its tarball was then removed, kept, or could
\* not be removed, is followed by the next plan item.
C19_Cleanup ==
    [][/\ (out' # out /\ ~PoolAlive) =>
             /\ delete_tars = TRUE
             /\ mainPc = "extracting"
             /\ extIdx \in opened
             /\ ext.pc = "break" \/ (ext.pc = "scan" /\ ext.pos = Len(ext.stream))
             /\ out' = [out EXCEPT ![TarOf(extIdx)] = Absent]
       /\ (ext.pc # "idle" /\ ext'.pc = "idle") =>
             /\ mainPc' = "extracting"
             /\ extIdx' = extIdx + 1
             /\ tmp' = tmp]_vars

\* C19 witness: a run with delete_tars is done; the first tarball could not
\* be removed, the second was removed, and a member was missing
C19_Witness ==
    /\ mainPc = "done"
    /\ Len(plan) = 2
    /\ extIdx = 3
    /\ delete_tars = TRUE
    /\ TarOf(1) # TarOf(2)
    /\ out[TarOf(1)] # Absent
    /\ out[TarOf(2)] = Absent
    /\ \E m \in Members : misses_total[m] > 0

\* the regular entries among the first n of a stream that carry a name of w
RegularHits(stream, n, w) ==
    {stream[k].name : k \in {j \in 1..n : stream[j].isreg /\ stream[j].name \in w}}

====
